---- MODULE Spec2Model ----
(***************************************************************************)
(* A model of the Kyne / ShegerPay Python SDK clients                      *)
(* (src/python/kyne.py, src/python/shegerpay.py): construction of a        *)
(* client, the per-operation payload shaping, the request layer            *)
(* (_request) with its Content-Type toggling on the shared session, the    *)
(* classification of responses and transport faults, and the mapping of    *)
(* decoded bodies to results.                                              *)
(*                                                                         *)
(* Python strings are TLA+ strings (Len, SubSeq and \o act on them as on   *)
(* sequences of characters); None is the value None below.                 *)
(***************************************************************************)
EXTENDS Integers, Sequences, FiniteSets, TLC

VARIABLES
    init_args,    \* the arguments __init__ was called with
    constructed,  \* "no" before __init__ ran, "ok" once it returned, "failed" once it raised
    ctorError,    \* the exception __init__ raised, NoError otherwise
    brand,        \* which of the two SDK variants the client is
    api_key,      \* self.api_key
    base_url,     \* self.base_url
    timeout,      \* self.timeout
    mode,         \* self.mode
    headers,      \* self._session.headers
    pc,           \* per caller: where its current call stands
    op,           \* per caller: the operation it called
    args,         \* per caller: the arguments of the call
    data,         \* per caller: the payload the operation built
    use_json,     \* per caller: the local use_json of _request
    sent,         \* per caller: the HTTP request its call issued, NoRequest before
    nreq,         \* per caller: how many HTTP requests its current call issued
    got,          \* per caller: what session.request gave its call: a response or a fault
    returned,     \* per caller: what _request returned or raised to the operation
    result        \* per caller: what its last finished call gave the caller

vars == <<init_args, constructed, ctorError, brand, api_key, base_url, timeout, mode,
          headers, pc, op, args, data, use_json, sent, nreq, got, returned, result>>

clientVars ==
    <<init_args, constructed, ctorError, brand, api_key, base_url, timeout, mode>>

-----------------------------------------------------------------------------
(* Python values *)

None == "<None>"

\* Python truthiness of the values the operations test with `if x:` / `x or y`.
Truthy(v) == v \notin {None, "", "0", "False"}

\* str.startswith(prefix)
StartsWith(s, p) == Len(s) >= Len(p) /\ SubSeq(s, 1, Len(p)) = p

\* str.startswith((p1, p2, ...))
StartsWithAny(s, ps) == \E p \in ps : StartsWith(s, p)

\* str.upper(), character by character
LowerCase == "abcdefghijklmnopqrstuvwxyz"
UpperCase == "ABCDEFGHIJKLMNOPQRSTUVWXYZ"

UpperChar(c) ==
    IF \E i \in 1..Len(LowerCase) : SubSeq(LowerCase, i, i) = c
    THEN LET i == CHOOSE j \in 1..Len(LowerCase) : SubSeq(LowerCase, j, j) = c
         IN  SubSeq(UpperCase, i, i)
    ELSE c

RECURSIVE Upper(_)
Upper(s) ==
    IF s = "" THEN "" ELSE UpperChar(SubSeq(s, 1, 1)) \o Upper(SubSeq(s, 2, Len(s)))

\* str.rstrip('/'): drop every trailing "/"
RECURSIVE RStrip(_)
RStrip(s) ==
    IF s # "" /\ SubSeq(s, Len(s), Len(s)) = "/"
    THEN RStrip(SubSeq(s, 1, Len(s) - 1))
    ELSE s

-----------------------------------------------------------------------------
(* The clients *)

Brands == {"kyne", "shegerpay"}

SkTest == "sk_test_"
SkLive == "sk_live_"

\* The base exception class of each variant
BaseError(b) == IF b = "kyne" THEN "KyneError" ELSE "ShegerPayError"

DEFAULT_BASE_URL(b) ==
    IF b = "kyne" THEN "https://api.kyne.com" ELSE "https://api.shegerpay.com"

UserAgent(b) ==
    IF b = "kyne" THEN "Kyne-Python-SDK/1.0" ELSE "ShegerPay-Python-SDK/1.0"

DefaultMerchantName(b) ==
    IF b = "kyne" THEN "Kyne Verification" ELSE "ShegerPay Verification"

DefaultTimeout == 30

FormType == "application/x-www-form-urlencoded"
JsonType == "application/json"

\* f'Bearer {api_key}'
Bearer(key) == "Bearer " \o key

\* The headers __init__ puts on the session
InitialHeaders(b, key) ==
    [Authorization |-> Bearer(key), ContentType |-> FormType, UserAgent |-> UserAgent(b)]

NoHeaders == [Authorization |-> "", ContentType |-> "", UserAgent |-> ""]

\* An exception: its class, its message and its status_code (NoStatus for None)
NoStatus == 0
NoError == [exc |-> "", message |-> "", status_code |-> NoStatus]
Error(e, m, s) == [exc |-> e, message |-> m, status_code |-> s]

\* A variant of KeyError that only checks that a key was given
KeyErrorWithoutPrefixCheck(key) ==
    IF ~Truthy(key)
    THEN Error("AuthenticationError", "API key is required", NoStatus)
    ELSE NoError

\* The two checks __init__ makes on api_key before it assigns anything
KeyError(key) ==
    IF ~Truthy(key)
    THEN Error("AuthenticationError", "API key is required", NoStatus)
    ELSE IF ~StartsWithAny(key, {SkTest, SkLive})
    THEN Error("AuthenticationError",
               "Invalid API key format. Must start with sk_test_ or sk_live_", NoStatus)
    ELSE NoError

\* A variant of ModeOf with the two modes the wrong way round
ModeOfInverted(key) == IF StartsWith(key, SkTest) THEN "live" ELSE "test"

\* self.mode
ModeOf(key) == IF StartsWith(key, SkTest) THEN "test" ELSE "live"

\* (base_url or DEFAULT_BASE_URL).rstrip('/')
BaseUrlOf(b, base) == RStrip(IF Truthy(base) THEN base ELSE DEFAULT_BASE_URL(b))

-----------------------------------------------------------------------------
(* The operations, their arguments and the payloads they build *)

\* Operations of both variants, and those only ShegerPay has
CommonOps == {"verify", "quick_verify", "get_history"}
ShegerPayOps ==
    CommonOps \cup {"get_crypto_prices", "create_crypto_payment", "paypal_create_order",
                    "paypal_create_setup_token", "list_payment_links",
                    "paypal_refund", "create_refund", "request_payout",
                    "list_webhooks", "setup_2fa"}

Ops(b) == IF b = "kyne" THEN CommonOps ELSE ShegerPayOps

\* The operations whose first statement sets the session Content-Type to
\* application/json and whose last statement sets it back
JsonOps ==
    {"create_crypto_payment", "paypal_create_order", "paypal_create_setup_token",
     "paypal_refund", "create_refund", "request_payout", "setup_2fa"}

\* The simple verification endpoints
FormOps == {"verify", "quick_verify"}

Method(o) == IF o \in FormOps \cup JsonOps THEN "POST" ELSE "GET"

EmptyDict == [k \in {} |-> ""]

\* d[k] = v on a dict
Put(d, k, v) == (k :> v) @@ d

\* if v: d[k] = v
PutIfTruthy(d, k, v) == IF Truthy(v) THEN Put(d, k, v) ELSE d

\* The arguments of a call; a parameter the operation does not have is None
\* (limit, an integer, is 0 and kwargs, a dict, is empty)
NoArgs ==
    [transaction_id |-> None, amount |-> None, provider |-> None,
     merchant_name |-> None, sub_provider |-> None, currency |-> None,
     wallet_address |-> None, chain |-> None, description |-> None,
     vault_on_approval |-> None, symbol |-> None, limit |-> 0,
     capture_id |-> None, note |-> None, reason |-> None, method |-> None,
     kwargs |-> EmptyDict]

\* A variant of DetectProvider that compares without upper()
DetectProviderCaseSensitive(transaction_id, provider) ==
    IF ~Truthy(provider)
    THEN IF StartsWith(transaction_id, "FT") THEN "cbe" ELSE "telebirr"
    ELSE provider

\* verify(): the provider sent
DetectProvider(transaction_id, provider) ==
    IF ~Truthy(provider)
    THEN IF StartsWith(Upper(transaction_id), "FT") THEN "cbe" ELSE "telebirr"
    ELSE provider

\* A variant of MerchantName that applies the default only to None
MerchantNameDefaultingNoneOnly(b, merchant_name) ==
    IF merchant_name # None THEN merchant_name ELSE DefaultMerchantName(b)

\* verify(): the merchant_name sent
MerchantName(b, merchant_name) ==
    IF Truthy(merchant_name) THEN merchant_name ELSE DefaultMerchantName(b)

\* A variant of VerifyData that sets sub_provider whatever its value
VerifyDataAlwaysWithSubProvider(b, a) ==
    Put([provider |-> DetectProvider(a.transaction_id, a.provider),
         transaction_id |-> a.transaction_id,
         amount |-> a.amount,
         merchant_name |-> MerchantName(b, a.merchant_name)],
        "sub_provider", a.sub_provider)

VerifyData(b, a) ==
    PutIfTruthy(
        [provider |-> DetectProvider(a.transaction_id, a.provider),
         transaction_id |-> a.transaction_id,
         amount |-> a.amount,
         merchant_name |-> MerchantName(b, a.merchant_name)],
        "sub_provider", a.sub_provider)

\* A variant of QuickVerifyData that detects and sends a provider as verify does
QuickVerifyDataWithProvider(a) ==
    [transaction_id |-> a.transaction_id, amount |-> a.amount,
     provider |-> DetectProvider(a.transaction_id, None)]

QuickVerifyData(a) == [transaction_id |-> a.transaction_id, amount |-> a.amount]

CryptoPaymentData(a) ==
    [amount_usd |-> a.amount, currency |-> Upper(a.currency),
     wallet_address |-> a.wallet_address, chain |-> a.chain]

PaypalOrderData(a) ==
    PutIfTruthy(
        PutIfTruthy([amount |-> a.amount, currency |-> a.currency],
                    "description", a.description),
        "vault_on_approval", a.vault_on_approval)

PaypalRefundData(a) ==
    PutIfTruthy(
        PutIfTruthy([capture_id |-> a.capture_id, currency |-> a.currency],
                    "amount", a.amount),
        "note", a.note)

CreateRefundData(a) ==
    PutIfTruthy(
        PutIfTruthy([transaction_id |-> a.transaction_id], "amount", a.amount),
        "reason", a.reason)

\* {'amount': amount, 'currency': currency, 'method': method, **kwargs}
RequestPayoutData(a) ==
    a.kwargs @@ [amount |-> a.amount, currency |-> a.currency, method |-> a.method]

\* The data= argument an operation hands to _request: given is FALSE for None
NoData == [given |-> FALSE, d |-> EmptyDict]
Data(d) == [given |-> TRUE, d |-> d]

Payload(b, o, a) ==
    CASE o = "verify" -> Data(VerifyData(b, a))
      [] o = "quick_verify" -> Data(QuickVerifyData(a))
      [] o = "create_crypto_payment" -> Data(CryptoPaymentData(a))
      [] o = "paypal_create_order" -> Data(PaypalOrderData(a))
      [] o = "paypal_create_setup_token" -> Data(EmptyDict)
      [] o = "setup_2fa" -> Data(EmptyDict)
      [] o = "paypal_refund" -> Data(PaypalRefundData(a))
      [] o = "create_refund" -> Data(CreateRefundData(a))
      [] o = "request_payout" -> Data(RequestPayoutData(a))
      [] OTHER -> NoData

Path(o, a) ==
    CASE o = "verify" -> "/api/v1/verify"
      [] o = "quick_verify" -> "/api/v1/quick-verify"
      [] o = "get_history" -> "/api/v1/history"
      [] o = "get_crypto_prices" ->
            IF Truthy(a.symbol)
            THEN "/api/v1/crypto/rate/" \o Upper(a.symbol)
            ELSE "/api/v1/crypto/rates"
      [] o = "create_crypto_payment" -> "/api/v1/crypto/generate-intent"
      [] o = "paypal_create_order" -> "/api/v1/paypal/create-order"
      [] o = "paypal_create_setup_token" -> "/api/v1/paypal/vault/setup-token"
      [] o = "list_payment_links" -> "/api/v1/payment-links/"
      [] o = "paypal_refund" -> "/api/v1/paypal/refund"
      [] o = "create_refund" -> "/api/v1/refunds"
      [] o = "request_payout" -> "/api/v1/payouts"
      [] o = "list_webhooks" -> "/api/v1/webhooks/"
      [] o = "setup_2fa" -> "/api/v1/two-factor/setup"

-----------------------------------------------------------------------------
(* The transport: what session.request puts on the wire *)

\* Python truthiness of the data argument: None and {} are falsy
DataTruthy(p) == p.given /\ DOMAIN p.d # {}

\* json.dumps of a dict: every key is kept, None becomes null
JsonEncode(d) == [k \in DOMAIN d |-> IF d[k] = None THEN "null" ELSE d[k]]

\* urlencode of a dict as requests does it: a key whose value is None is dropped
FormEncode(d) == [k \in {x \in DOMAIN d : d[x] # None} |-> d[k]]

NoBody == [enc |-> "none", fields |-> EmptyDict]

\* The body session.request builds from json= (as_json) or data=
Body(as_json, p) ==
    IF as_json
    THEN [enc |-> "json", fields |-> JsonEncode(p.d)]
    ELSE IF DataTruthy(p)
    THEN [enc |-> "form", fields |-> FormEncode(p.d)]
    ELSE NoBody

\* _request: which branch dispatches the call
UseJsonBranch(uj, p) == uj /\ DataTruthy(p)

NoRequest ==
    [method |-> "", url |-> "", body |-> NoBody, content_type |-> "",
     authorization |-> "", timeout |-> 0]

\* The request session.request prepares: the body of the chosen branch under the
\* headers the session holds at that moment
Request(method, url, uj, p, hdrs, to) ==
    [method |-> method, url |-> url, body |-> Body(UseJsonBranch(uj, p), p),
     content_type |-> hdrs.ContentType, authorization |-> hdrs.Authorization,
     timeout |-> to]

-----------------------------------------------------------------------------
(* Responses, transport faults and their classification in _request *)

\* A response body: text that is no JSON, a JSON object (its scalar fields in d;
\* links says it also has a key 'links' holding the array l) or a JSON array l
\* of objects
TextBody == [kind |-> "text", d |-> EmptyDict, l |-> <<>>, links |-> FALSE]
DictBody(d) == [kind |-> "dict", d |-> d, l |-> <<>>, links |-> FALSE]
LinksBody(d, l) == [kind |-> "dict", d |-> d, l |-> l, links |-> TRUE]
ListBody(l) == [kind |-> "list", d |-> EmptyDict, l |-> l, links |-> FALSE]

\* What session.request gave a call: a response (status and body) or an exception
NothingYet == [kind |-> "none", status |-> NoStatus, body |-> TextBody, fault |-> ""]
Response(status, body) ==
    [kind |-> "response", status |-> status, body |-> body, fault |-> ""]
Faulted(f) == [kind |-> "fault", status |-> NoStatus, body |-> TextBody, fault |-> f]

\* The exceptions of requests.exceptions a call of session.request can raise
Faults == {"ReadTimeout", "ConnectTimeout", "ConnectionError", "SSLError",
           "TooManyRedirects"}

\* issubclass(f, requests.exceptions.Timeout)
IsTimeout(f) == f \in {"Timeout", "ReadTimeout", "ConnectTimeout"}

\* issubclass(f, requests.exceptions.ConnectionError)
IsConnectionError(f) ==
    f \in {"ConnectionError", "ConnectTimeout", "SSLError", "ProxyError"}

\* What a call gives its caller: a returned value or a raised exception
\* (a returned value is a decoded body, a VerificationResult in vr or a list of
\* Transaction in txs, as shape says)
NoVR ==
    [valid |-> None, status |-> None, provider |-> None, transaction_id |-> None,
     amount |-> None, reason |-> None, mode |-> None, payer |-> None]
Return(body) ==
    [kind |-> "return", exc |-> "", message |-> "", status_code |-> NoStatus,
     shape |-> "body", body |-> body, vr |-> NoVR, txs |-> <<>>]
Raise(e, m, sc) ==
    [kind |-> "raise", exc |-> e, message |-> m, status_code |-> sc,
     shape |-> "none", body |-> TextBody, vr |-> NoVR, txs |-> <<>>]
NoResult ==
    [kind |-> "none", exc |-> "", message |-> "", status_code |-> NoStatus,
     shape |-> "none", body |-> TextBody, vr |-> NoVR, txs |-> <<>>]

\* response.json()
DecodeJson(body) ==
    IF body.kind = "text"
    THEN Raise("JSONDecodeError", "Expecting value", NoStatus)
    ELSE Return(body)

\* The 400 branch: error = response.json(); error.get('detail', 'Validation error')
ValidationOutcome(body) ==
    IF DecodeJson(body).kind = "raise"
    THEN DecodeJson(body)
    ELSE IF body.kind # "dict"
    THEN Raise("AttributeError", "'list' object has no attribute 'get'", NoStatus)
    ELSE Raise("ValidationError",
               IF "detail" \in DOMAIN body.d THEN body.d["detail"] ELSE "Validation error",
               400)

\* A variant of StatusOutcome that decodes the body before it looks at the status
StatusOutcomeDecodingFirst(b, status, body) ==
    IF DecodeJson(body).kind = "raise"
    THEN DecodeJson(body)
    ELSE IF status = 401
    THEN Raise("AuthenticationError", "Invalid API key", 401)
    ELSE IF status = 400
    THEN ValidationOutcome(body)
    ELSE IF status >= 500
    THEN Raise(BaseError(b), "Server error", status)
    ELSE Return(body)

\* A variant of StatusOutcome that raises the base error for every status from 400
StatusOutcomeRaisingFrom400(b, status, body) ==
    IF status = 401
    THEN Raise("AuthenticationError", "Invalid API key", 401)
    ELSE IF status = 400
    THEN ValidationOutcome(body)
    ELSE IF status >= 402
    THEN Raise(BaseError(b), "Server error", status)
    ELSE DecodeJson(body)

\* A variant of StatusOutcome whose server error does not carry the status code
StatusOutcomeWithoutStatusCode(b, status, body) ==
    IF status = 401
    THEN Raise("AuthenticationError", "Invalid API key", 401)
    ELSE IF status = 400
    THEN ValidationOutcome(body)
    ELSE IF status >= 500
    THEN Raise(BaseError(b), "Server error", NoStatus)
    ELSE DecodeJson(body)

\* The body of the try block once session.request has returned
StatusOutcome(b, status, body) ==
    IF status = 401
    THEN Raise("AuthenticationError", "Invalid API key", 401)
    ELSE IF status = 400
    THEN ValidationOutcome(body)
    ELSE IF status >= 500
    THEN Raise(BaseError(b), "Server error", status)
    ELSE DecodeJson(body)

\* The except clauses of _request, applied to what the try block raised
ExceptClauses(b, out) ==
    IF out.kind = "raise" /\ IsTimeout(out.exc)
    THEN Raise(BaseError(b), "Request timed out", NoStatus)
    ELSE IF out.kind = "raise" /\ IsConnectionError(out.exc)
    THEN Raise(BaseError(b), "Connection error", NoStatus)
    ELSE out

\* _request when session.request returns a response
OnResponse(b, status, body) == ExceptClauses(b, StatusOutcome(b, status, body))

\* _request when session.request raises
OnFault(b, f) == ExceptClauses(b, Raise(f, "", NoStatus))

-----------------------------------------------------------------------------
(* Response mapping in the operations *)

\* dict.get(k, default)
Get(d, k, default) == IF k \in DOMAIN d THEN d[k] ELSE default

\* A variant of from_response that fills in an absent provider
from_responseSynthesizing(body) ==
    IF body.kind # "dict"
    THEN Raise("AttributeError", "'list' object has no attribute 'get'", NoStatus)
    ELSE [Return(TextBody) EXCEPT
            !.shape = "VerificationResult",
            !.vr = [valid |-> Get(body.d, "valid", "False"),
                    status |-> Get(body.d, "status", "unknown"),
                    provider |-> Get(body.d, "provider", "cbe"),
                    transaction_id |-> Get(body.d, "transaction_id", None),
                    amount |-> Get(body.d, "amount", None),
                    reason |-> Get(body.d, "reason", None),
                    mode |-> Get(body.d, "mode", None),
                    payer |-> Get(body.d, "payer", None)]]

\* VerificationResult.from_response
from_response(body) ==
    IF body.kind # "dict"
    THEN Raise("AttributeError", "'list' object has no attribute 'get'", NoStatus)
    ELSE [Return(TextBody) EXCEPT
            !.shape = "VerificationResult",
            !.vr = [valid |-> Get(body.d, "valid", "False"),
                    status |-> Get(body.d, "status", "unknown"),
                    provider |-> Get(body.d, "provider", None),
                    transaction_id |-> Get(body.d, "transaction_id", None),
                    amount |-> Get(body.d, "amount", None),
                    reason |-> Get(body.d, "reason", None),
                    mode |-> Get(body.d, "mode", None),
                    payer |-> Get(body.d, "payer", None)]]

\* A variant of TransactionOf that takes external_id from the record's id
TransactionOfWithIdAsExternalId(tx) ==
    [id |-> Get(tx, "id", None), provider |-> Get(tx, "provider", None),
     external_id |-> Get(tx, "id", None), amount |-> Get(tx, "amount", None),
     status |-> Get(tx, "status", None), created_at |-> Get(tx, "created_at", None),
     mode |-> Get(tx, "mode", None)]

\* Transaction(id=tx.get('id'), ...)
TransactionOf(tx) ==
    [id |-> Get(tx, "id", None), provider |-> Get(tx, "provider", None),
     external_id |-> Get(tx, "external_id", None), amount |-> Get(tx, "amount", None),
     status |-> Get(tx, "status", None), created_at |-> Get(tx, "created_at", None),
     mode |-> Get(tx, "mode", None)]

\* get_history: the loop over the response; iterating a JSON object yields its
\* keys, which are strings and have no get
HistoryOf(body) ==
    IF body.kind = "dict" /\ (DOMAIN body.d # {} \/ body.links)
    THEN Raise("AttributeError", "'str' object has no attribute 'get'", NoStatus)
    ELSE [Return(TextBody) EXCEPT
            !.shape = "Transactions",
            !.txs = [i \in 1..Len(body.l) |-> TransactionOf(body.l[i])]]

\* list_payment_links: response.get('links', []) if isinstance(response, dict)
PaymentLinksOf(body) ==
    IF body.kind = "dict" THEN Return(ListBody(body.l)) ELSE Return(body)

\* What an operation makes of the body _request returned to it
MapResponse(o, body) ==
    CASE o \in FormOps -> from_response(body)
      [] o = "get_history" -> HistoryOf(body)
      [] o = "list_payment_links" -> PaymentLinksOf(body)
      [] OTHER -> Return(body)

-----------------------------------------------------------------------------
(* The steps of the program *)

Callers == {"t1", "t2"}

Idle == [t \in Callers |-> "idle"]

\* __init__: either check fails and nothing is assigned, or every field is set
Construct(b, key, base, to) ==
    /\ constructed = "no"
    /\ init_args' = [api_key |-> key, base_url |-> base, timeout |-> to]
    /\ IF KeyError(key) # NoError
       THEN /\ constructed' = "failed"
            /\ ctorError' = KeyError(key)
            /\ UNCHANGED <<brand, api_key, base_url, timeout, mode, headers>>
       ELSE /\ constructed' = "ok"
            /\ ctorError' = NoError
            /\ brand' = b
            /\ api_key' = key
            /\ base_url' = BaseUrlOf(b, base)
            /\ timeout' = to
            /\ mode' = ModeOf(key)
            /\ headers' = InitialHeaders(b, key)
    /\ UNCHANGED <<pc, op, args, data, use_json, sent, nreq, got, returned, result>>

\* The session Content-Type after the first statement of operation o
HeadersOnEntry(o, hdrs) ==
    IF o \in JsonOps THEN [hdrs EXCEPT !.ContentType = JsonType] ELSE hdrs

\* A variant of HeadersOnExit that replaces the session headers and loses the
\* Authorization header
HeadersOnExitDroppingAuthorization(hdrs) ==
    [Authorization |-> "", ContentType |-> FormType, UserAgent |-> hdrs.UserAgent]

\* The session Content-Type after the statement that follows _request in a
\* JSON operation
HeadersOnExit(hdrs) == [hdrs EXCEPT !.ContentType = FormType]

\* A caller enters operation o: the operation sets the Content-Type if it is a
\* JSON operation, builds its payload and calls _request
Begin(t, o, a) ==
    /\ constructed = "ok"
    /\ pc[t] = "idle"
    /\ o \in Ops(brand)
    /\ headers' = HeadersOnEntry(o, headers)
    /\ op' = [op EXCEPT ![t] = o]
    /\ args' = [args EXCEPT ![t] = a]
    /\ data' = [data EXCEPT ![t] = Payload(brand, o, a)]
    /\ use_json' = [use_json EXCEPT ![t] = FALSE]
    /\ sent' = [sent EXCEPT ![t] = NoRequest]
    /\ nreq' = [nreq EXCEPT ![t] = 0]
    /\ got' = [got EXCEPT ![t] = NothingYet]
    /\ returned' = [returned EXCEPT ![t] = NoResult]
    /\ result' = [result EXCEPT ![t] = NoResult]
    /\ pc' = [pc EXCEPT ![t] = "dispatch"]
    /\ UNCHANGED clientVars

\* The value _request computes for use_json (Kyne's _request has no such test)
ReadUseJson(b, hdrs) == b = "shegerpay" /\ hdrs.ContentType = JsonType

\* _request: use_json = self._session.headers.get('Content-Type') == 'application/json'
ReadContentType(t) ==
    /\ pc[t] = "dispatch"
    /\ use_json' = [use_json EXCEPT ![t] = ReadUseJson(brand, headers)]
    /\ pc' = [pc EXCEPT ![t] = "send"]
    /\ UNCHANGED <<clientVars, headers, op, args, data, sent, nreq, got, returned, result>>

\* _request: self._session.request(...) prepares and sends the request
Send(t) ==
    /\ pc[t] = "send"
    /\ sent' = [sent EXCEPT ![t] =
                  Request(Method(op[t]), base_url \o Path(op[t], args[t]),
                          use_json[t], data[t], headers, timeout)]
    /\ nreq' = [nreq EXCEPT ![t] = @ + 1]
    /\ pc' = [pc EXCEPT ![t] = "wait"]
    /\ UNCHANGED <<clientVars, headers, op, args, data, use_json, got, returned, result>>

\* session.request returns a response: _request classifies it; an exception
\* leaves the operation at once, a returned body goes back to the operation
Respond(t, status, body) ==
    /\ pc[t] = "wait"
    /\ got' = [got EXCEPT ![t] = Response(status, body)]
    /\ LET out == OnResponse(brand, status, body) IN
       /\ returned' = [returned EXCEPT ![t] = out]
       /\ IF out.kind = "raise"
          THEN /\ result' = [result EXCEPT ![t] = out]
               /\ pc' = [pc EXCEPT ![t] = "idle"]
          ELSE IF op[t] \in JsonOps
          THEN /\ pc' = [pc EXCEPT ![t] = "restore"]
               /\ UNCHANGED result
          ELSE /\ result' = [result EXCEPT ![t] = MapResponse(op[t], out.body)]
               /\ pc' = [pc EXCEPT ![t] = "idle"]
    /\ UNCHANGED <<clientVars, headers, op, args, data, use_json, sent, nreq>>

\* A variant of Fault that sends the request again after a timeout
FaultRetrying(t, f) ==
    /\ pc[t] = "wait"
    /\ IF IsTimeout(f)
       THEN /\ pc' = [pc EXCEPT ![t] = "send"]
            /\ UNCHANGED <<got, returned, result>>
       ELSE /\ got' = [got EXCEPT ![t] = Faulted(f)]
            /\ returned' = [returned EXCEPT ![t] = OnFault(brand, f)]
            /\ result' = [result EXCEPT ![t] = OnFault(brand, f)]
            /\ pc' = [pc EXCEPT ![t] = "idle"]
    /\ UNCHANGED <<clientVars, headers, op, args, data, use_json, sent, nreq>>

\* session.request raises: the except clauses of _request decide what the
\* caller sees, and the exception leaves the operation at once
Fault(t, f) ==
    /\ pc[t] = "wait"
    /\ got' = [got EXCEPT ![t] = Faulted(f)]
    /\ returned' = [returned EXCEPT ![t] = OnFault(brand, f)]
    /\ result' = [result EXCEPT ![t] = OnFault(brand, f)]
    /\ pc' = [pc EXCEPT ![t] = "idle"]
    /\ UNCHANGED <<clientVars, headers, op, args, data, use_json, sent, nreq>>

\* A JSON operation after _request returned: it sets the Content-Type back and
\* returns the response
Restore(t) ==
    /\ pc[t] = "restore"
    /\ headers' = HeadersOnExit(headers)
    /\ result' = [result EXCEPT ![t] = returned[t]]
    /\ pc' = [pc EXCEPT ![t] = "idle"]
    /\ UNCHANGED <<clientVars, op, args, data, use_json, sent, nreq, got, returned>>

-----------------------------------------------------------------------------
(* The inputs the specifications draw from *)

\* Keys: empty, None, without a recognised prefix, with a prefix in the wrong
\* case or not at the start, with a truncated prefix, and valid ones
Keys == {"", None, "invalid_key", "SK_TEST_abc", "xsk_test_abc", "sk_live", "sk_test",
         "sk_test_", "sk_test_abc", "sk_live_abc"}

BaseUrls == {None, "http://localhost:8000/"}

Timeouts == {DefaultTimeout, 5}

Statuses == {200, 201, 400, 401, 403, 404, 429, 500, 503}

VerifiedDict ==
    [valid |-> "True", status |-> "verified", provider |-> "cbe", amount |-> "100"]

TxRecord ==
    [id |-> "1", provider |-> "cbe", external_id |-> "FT1", amount |-> "100",
     status |-> "verified", created_at |-> "2024-01-01", mode |-> "test"]

Bodies ==
    {TextBody, DictBody(EmptyDict), DictBody([detail |-> "Amount mismatch"]),
     DictBody(VerifiedDict), ListBody(<<>>), ListBody(<<TxRecord>>),
     LinksBody([total |-> "1"], <<[id |-> "L1"]>>)}

\* A second well-formed transaction record
TxRecord2 ==
    [id |-> "2", provider |-> "telebirr", external_id |-> "CK2", amount |-> "250",
     status |-> "pending", created_at |-> "2024-01-02", mode |-> "live"]

\* The fields of Transaction and of VerificationResult
TxFields == {"id", "provider", "external_id", "amount", "status", "created_at", "mode"}
VRFields ==
    {"valid", "status", "provider", "transaction_id", "amount", "reason", "mode", "payer"}

\* A verification response that has every field
VRFull ==
    [valid |-> "True", status |-> "verified", provider |-> "cbe",
     transaction_id |-> "FT1", amount |-> "100", reason |-> "matched",
     mode |-> "test", payer |-> "Abebe"]

\* The dict d without key k, and d with only the keys of S
Without(d, k) == [x \in DOMAIN d \ {k} |-> d[x]]
Restrict(d, S) == [x \in S |-> d[x]]

\* The records of a history response: well-formed ones and ones lacking a field
Records == {TxRecord, TxRecord2} \cup {Without(TxRecord, f) : f \in TxFields}

MaxRecords == 2

\* The bodies of the mapping specification: every array of at most MaxRecords
\* records and every object over the fields of VerificationResult
MapBodies ==
    {ListBody(l) : l \in UNION {[1..n -> Records] : n \in 0..MaxRecords}}
    \cup {DictBody(Restrict(VRFull, S)) : S \in SUBSET VRFields}

\* The strings of at most n characters over alphabet
RECURSIVE Strings(_, _)
Strings(alphabet, n) ==
    IF n = 0
    THEN {""}
    ELSE LET shorter == Strings(alphabet, n - 1)
         IN  shorter \cup {s \o c : s \in shorter, c \in alphabet}

MaxIdLen == 2
IdAlphabet == {"F", "f", "T", "t", "1"}
AllIds == Strings(IdAlphabet, MaxIdLen)

\* get_history: the limits asked for
Limits == {1, 50}

\* The optional note of paypal_refund and reason of create_refund
Reasons == {None, "", "duplicate"}

\* The extra keyword arguments of request_payout
Kwargs == {EmptyDict, [account_id |-> "A1"], [account_id |-> None]}

\* The calls of operation o with the arguments drawn from the given sets
Calls(o, ids, amounts, providers, names, subs) ==
    CASE o = "verify" ->
            {[NoArgs EXCEPT !.transaction_id = i, !.amount = am, !.provider = p,
                            !.merchant_name = m, !.sub_provider = sp] :
                i \in ids, am \in amounts, p \in providers, m \in names, sp \in subs}
      [] o = "quick_verify" ->
            {[NoArgs EXCEPT !.transaction_id = i, !.amount = am] :
                i \in ids, am \in amounts}
      [] o = "get_history" -> {[NoArgs EXCEPT !.limit = n] : n \in Limits}
      [] o = "get_crypto_prices" -> {[NoArgs EXCEPT !.symbol = sy] : sy \in {None, "btc"}}
      [] o = "create_crypto_payment" ->
            {[NoArgs EXCEPT !.amount = am, !.currency = "usdt",
                            !.wallet_address = "TJCnKsPa7y", !.chain = "TRON"] :
                am \in amounts}
      [] o = "paypal_create_order" ->
            {[NoArgs EXCEPT !.amount = am, !.currency = "USD", !.description = ds,
                            !.vault_on_approval = "False"] :
                am \in amounts, ds \in {None, "Order #123"}}
      [] o = "paypal_refund" ->
            {[NoArgs EXCEPT !.capture_id = "CAP1", !.amount = am, !.currency = "USD",
                            !.note = r] :
                am \in amounts \cup {None}, r \in Reasons}
      [] o = "create_refund" ->
            {[NoArgs EXCEPT !.transaction_id = i, !.amount = am, !.reason = r] :
                i \in ids, am \in amounts \cup {None}, r \in Reasons}
      [] o = "request_payout" ->
            {[NoArgs EXCEPT !.amount = am, !.currency = "ETB",
                            !.method = "bank_transfer", !.kwargs = kw] :
                am \in amounts, kw \in Kwargs}
      [] OTHER -> {NoArgs}

Providers == {None, "", "cbe", "telebirr", "bank_transfer"}
MerchantNames == {None, "", "My Shop"}
SubProviders == {None, "", "Payoneer"}

\* The calls of the sequential specification
SeqCalls(o) == Calls(o, {"FT1", "ab"}, {"100"}, {None, "cbe"}, {None}, {None})

\* The calls of the payload specification
ArgCalls(o) ==
    Calls(o, AllIds, {"100"}, Providers, {None}, {None})
    \cup Calls(o, {"FT1", "ab"}, {"100", "0"}, {None, "cbe"}, MerchantNames, SubProviders)

\* The calls of the concurrent specification
ConcCalls(o) == Calls(o, {"FT1"}, {"100"}, {None}, {None}, {None})

-----------------------------------------------------------------------------
(* The specifications *)

Init ==
    /\ init_args = [api_key |-> "", base_url |-> "", timeout |-> 0]
    /\ constructed = "no"
    /\ ctorError = NoError
    /\ brand = ""
    /\ api_key = ""
    /\ base_url = ""
    /\ timeout = 0
    /\ mode = ""
    /\ headers = NoHeaders
    /\ pc = Idle
    /\ op = [t \in Callers |-> ""]
    /\ args = [t \in Callers |-> NoArgs]
    /\ data = [t \in Callers |-> NoData]
    /\ use_json = [t \in Callers |-> FALSE]
    /\ sent = [t \in Callers |-> NoRequest]
    /\ nreq = [t \in Callers |-> 0]
    /\ got = [t \in Callers |-> NothingYet]
    /\ returned = [t \in Callers |-> NoResult]
    /\ result = [t \in Callers |-> NoResult]

\* One caller, every operation, every response and fault
Next ==
    \/ \E b \in Brands, k \in Keys, u \in BaseUrls, to \in Timeouts : Construct(b, k, u, to)
    \/ \E o \in ShegerPayOps : \E a \in SeqCalls(o) : Begin("t1", o, a)
    \/ ReadContentType("t1")
    \/ Send("t1")
    \/ \E st \in Statuses, body \in Bodies : Respond("t1", st, body)
    \/ \E f \in Faults : Fault("t1", f)
    \/ Restore("t1")

Spec == Init /\ [][Next]_vars

\* One caller of verify and quick_verify with every combination of arguments
NextArgs ==
    \/ \E b \in Brands : Construct(b, "sk_test_abc", None, DefaultTimeout)
    \/ \E o \in FormOps : \E a \in ArgCalls(o) : Begin("t1", o, a)
    \/ ReadContentType("t1")
    \/ Send("t1")
    \/ Respond("t1", 200, DictBody(VerifiedDict))

SpecArgs == Init /\ [][NextArgs]_vars

\* One caller of the operations that map the response (verify, quick_verify,
\* get_history), every request answered 200 with a body of MapBodies
NextMap ==
    \/ \E b \in Brands : Construct(b, "sk_test_abc", None, DefaultTimeout)
    \/ \E o \in CommonOps : \E a \in ConcCalls(o) : Begin("t1", o, a)
    \/ ReadContentType("t1")
    \/ Send("t1")
    \/ \E body \in MapBodies : Respond("t1", 200, body)

SpecMap == Init /\ [][NextMap]_vars

\* Two concurrent callers of one ShegerPay client, t1 calling JSON operations
\* and t2 the verification operations; every request is answered 200
NextConc ==
    \/ Construct("shegerpay", "sk_test_abc", None, DefaultTimeout)
    \/ \E o \in {"create_crypto_payment", "paypal_create_order"} :
          \E a \in ConcCalls(o) : Begin("t1", o, a)
    \/ \E o \in FormOps : \E a \in ConcCalls(o) : Begin("t2", o, a)
    \/ \E t \in Callers : ReadContentType(t)
    \/ \E t \in Callers : Send(t)
    \/ \E t \in Callers : Respond(t, 200, DictBody(VerifiedDict))
    \/ Restore("t1")

SpecConc == Init /\ [][NextConc]_vars

-----------------------------------------------------------------------------
(* The properties *)

\* The SDK's own exception classes
SdkErrors(b) == {"AuthenticationError", "ValidationError", BaseError(b)}

\* A call of caller t has put its request on the wire
HasSent(t) == sent[t] # NoRequest

\* The request of caller t went out form-encoded under the form Content-Type
SentAsForm(t) == sent[t].body.enc = "form" /\ sent[t].content_type = FormType

\* The request of caller t went out JSON-encoded under the JSON Content-Type
SentAsJson(t) == sent[t].body.enc = "json" /\ sent[t].content_type = JsonType

\* C1: with a JSON-family call and a form-family call running concurrently on one
\* ShegerPay client, whatever the interleaving, the form-family request goes out
\* form-encoded and the JSON-family request goes out JSON-encoded.
C1_NoCrossTalk ==
    \A t \in Callers :
        HasSent(t) =>
            /\ op[t] \in FormOps => SentAsForm(t)
            /\ op[t] \in JsonOps => SentAsJson(t)

\* C2: in a sequential history on one client, also after a JSON-family operation
\* that ended with an error, every verify and quick_verify request is
\* form-encoded, and whenever no call is in progress the session Content-Type is
\* application/x-www-form-urlencoded.
C2_FormIsTheDefault ==
    constructed = "ok" =>
        /\ (\A t \in Callers : pc[t] = "idle") => headers.ContentType = FormType
        /\ \A t \in Callers : (op[t] \in FormOps /\ HasSent(t)) => SentAsForm(t)

\* The api_key is empty (or None) or starts with neither recognised prefix
UnrecognisedKey(k) ==
    \/ k \in {"", None}
    \/ /\ ~(Len(k) >= 8 /\ SubSeq(k, 1, 8) = "sk_test_")
       /\ ~(Len(k) >= 8 /\ SubSeq(k, 1, 8) = "sk_live_")

\* No field of a client was assigned and nothing went to the network
NoClientNoNetwork ==
    /\ brand = "" /\ api_key = "" /\ base_url = "" /\ mode = ""
    /\ headers = NoHeaders
    /\ \A t \in Callers : pc[t] = "idle" /\ ~HasSent(t) /\ nreq[t] = 0

\* C3: constructing a client with an api_key that is empty or starts with neither
\* sk_test_ nor sk_live_ fails with AuthenticationError, yields no client and
\* makes no network call.
C3_BadKeyFailsFast ==
    (constructed # "no" /\ UnrecognisedKey(init_args.api_key)) =>
        /\ constructed = "failed"
        /\ ctorError.exc = "AuthenticationError"
        /\ NoClientNoNetwork

C3_Witness ==
    /\ constructed = "failed"
    /\ init_args.api_key = "xsk_test_abc"
    /\ ctorError.exc = "AuthenticationError"

\* C4: a constructed client has mode test exactly when its api_key starts with
\* sk_test_ and mode live exactly when it starts with sk_live_, and never another
\* mode, at construction and after every operation.
C4_ModeMatchesKey ==
    constructed = "ok" =>
        /\ mode \in {"test", "live"}
        /\ mode = "test" <=> SubSeq(api_key, 1, 8) = "sk_test_"
        /\ mode = "live" <=> SubSeq(api_key, 1, 8) = "sk_live_"
        /\ api_key = init_args.api_key

C4_Witness ==
    /\ constructed = "ok"
    /\ mode = "live"
    /\ api_key = "sk_live_abc"
    /\ result["t1"].kind = "raise"

\* The identifier starts with FT in any mix of upper and lower case
StartsWithFT(id) ==
    /\ Len(id) >= 2
    /\ SubSeq(id, 1, 1) \in {"F", "f"}
    /\ SubSeq(id, 2, 2) \in {"T", "t"}

\* C5: the provider field verify() sends is, when the caller gives no provider
\* (None or the empty string, which the code does not tell apart), cbe exactly
\* when the transaction identifier starts with FT case-insensitively and telebirr
\* for every other identifier, the empty one included; when the caller gives a
\* provider, that value is sent as given and nothing is detected.
C5_ProviderDetection ==
    \A t \in Callers :
        (op[t] = "verify" /\ HasSent(t)) =>
            /\ "provider" \in DOMAIN sent[t].body.fields
            /\ sent[t].body.fields["provider"] =
                 IF args[t].provider \in {None, ""}
                 THEN IF StartsWithFT(args[t].transaction_id) THEN "cbe" ELSE "telebirr"
                 ELSE args[t].provider

C5_Witness ==
    /\ op["t1"] = "verify" /\ HasSent("t1")
    /\ args["t1"].provider = None
    /\ args["t1"].transaction_id = "fT"
    /\ sent["t1"].body.fields["provider"] = "cbe"

\* C6: a response with status 401 to any operation reaches the caller as
\* AuthenticationError whatever its body is (a body that is no JSON included),
\* never as a result value.
C6_401IsAuthenticationError ==
    \A t \in Callers :
        (got[t].kind = "response" /\ got[t].status = 401) =>
            /\ pc[t] = "idle"
            /\ result[t].kind = "raise"
            /\ result[t].exc = "AuthenticationError"

C6_Witness ==
    /\ got["t1"] = Response(401, TextBody)
    /\ op["t1"] = "paypal_create_order"
    /\ result["t1"].exc = "AuthenticationError"

\* C7: a response with status 400 to any operation reaches the caller as
\* ValidationError with status_code 400 whose message is the body's detail field
\* when the body has one and 'Validation error' otherwise, also when the body has
\* no such field or cannot be decoded.
C7_400IsValidationError ==
    \A t \in Callers :
        (got[t].kind = "response" /\ got[t].status = 400) =>
            /\ result[t].kind = "raise"
            /\ result[t].exc = "ValidationError"
            /\ result[t].status_code = 400
            /\ result[t].message =
                 IF got[t].body.kind = "dict" /\ "detail" \in DOMAIN got[t].body.d
                 THEN got[t].body.d["detail"]
                 ELSE "Validation error"

\* C8: every response with a status outside 200..299 and every transport fault
\* gives the calling operation one classified error; no operation returns a
\* result value for such a response.
C8_Non2xxIsAnError ==
    \A t \in Callers :
        (\/ got[t].kind = "fault"
         \/ got[t].kind = "response" /\ got[t].status \notin 200..299) =>
            /\ pc[t] = "idle"
            /\ result[t].kind = "raise"

\* The statuses the request layer does not enumerate
Unlisted(status) == status \notin 200..299 /\ status \notin {400, 401} /\ status < 500

\* C9: a response whose status is non-2xx but none of 401, 400 or >= 500 is
\* treated as success by the request layer: no error is raised for its status
\* and its decoded body is returned to the operation.
C9_UnlistedStatusPassesThrough ==
    \A t \in Callers :
        (got[t].kind = "response" /\ Unlisted(got[t].status)) =>
            /\ returned[t].exc \notin SdkErrors(brand)
            /\ got[t].body.kind # "text" => returned[t] = Return(got[t].body)

C9_Witness ==
    /\ got["t1"] = Response(404, DictBody([detail |-> "Amount mismatch"]))
    /\ op["t1"] = "verify"
    /\ returned["t1"] = Return(DictBody([detail |-> "Amount mismatch"]))
    /\ result["t1"].kind = "return"

\* C10: every failure of an operation reaches the caller as a member of the SDK's
\* error taxonomy, never as a raw transport exception: a timeout as TimeoutError,
\* a connection failure as ConnectionError, any other transport or decoding fault
\* as the base error.
C10_ErrorsArriveClassified ==
    \A t \in Callers :
        /\ result[t].kind = "raise" =>
              result[t].exc \in SdkErrors(brand) \cup {"TimeoutError", "ConnectionError"}
        /\ (got[t].kind = "fault" /\ got[t].fault = "ReadTimeout") =>
              result[t].exc = "TimeoutError"
        /\ (got[t].kind = "fault" /\ got[t].fault = "ConnectionError") =>
              result[t].exc = "ConnectionError"
        /\ (got[t].kind = "fault" /\ got[t].fault = "TooManyRedirects") =>
              result[t].exc = BaseError(brand)
        /\ (got[t].kind = "response" /\ got[t].status \in 200..299
                /\ got[t].body.kind = "text") =>
              (result[t].kind = "raise" /\ result[t].exc = BaseError(brand))

\* C11: a response with status >= 500 to any operation reaches the caller as the
\* generic (base) error whose status_code is exactly the response's status.
C11_ServerErrorCarriesStatus ==
    \A t \in Callers :
        (got[t].kind = "response" /\ got[t].status >= 500) =>
            /\ pc[t] = "idle"
            /\ result[t].kind = "raise"
            /\ result[t].exc = BaseError(brand)
            /\ result[t].status_code = got[t].status

C11_Witness ==
    /\ got["t1"].kind = "response" /\ got["t1"].status = 503
    /\ op["t1"] = "get_history"
    /\ result["t1"].exc = "KyneError"
    /\ result["t1"].status_code = 503

\* C12: no automatic retry: every invocation of an operation issues at most one
\* HTTP request whatever the outcome of that request, and a finished invocation
\* has issued exactly one.
C12_NoRetry ==
    \A t \in Callers :
        /\ nreq[t] <= 1
        /\ got[t].kind # "none" => nreq[t] = 1

C12_Witness ==
    /\ got["t1"] = Faulted("ReadTimeout")
    /\ pc["t1"] = "idle"
    /\ result["t1"].message = "Request timed out"
    /\ nreq["t1"] = 1

\* The optional parameters of operation o that become payload keys, each with
\* the payload key it becomes (the extra keyword arguments of request_payout keep
\* their names)
OptionalKeys(o, a) ==
    CASE o = "verify" -> {"sub_provider"}
      [] o = "paypal_create_order" -> {"description", "vault_on_approval"}
      [] o = "paypal_refund" -> {"amount", "note"}
      [] o = "create_refund" -> {"amount", "reason"}
      [] o = "request_payout" -> DOMAIN a.kwargs
      [] OTHER -> {}

\* The value the caller supplied for the optional payload key k
Supplied(o, a, k) ==
    CASE o = "request_payout" -> a.kwargs[k]
      [] k = "sub_provider" -> a.sub_provider
      [] k = "description" -> a.description
      [] k = "vault_on_approval" -> a.vault_on_approval
      [] k = "amount" -> a.amount
      [] k = "note" -> a.note
      [] k = "reason" -> a.reason

\* The payload of caller t (the dict handed to _request and the body on the wire)
\* has an optional key only if the caller supplied a truthy value, and no null
PayloadHasNoNull(t) ==
    /\ \A k \in DOMAIN data[t].d : data[t].d[k] # None
    /\ \A k \in DOMAIN sent[t].body.fields : sent[t].body.fields[k] # "null"
    /\ \A k \in OptionalKeys(op[t], args[t]) :
          k \in DOMAIN sent[t].body.fields => Truthy(Supplied(op[t], args[t], k))

\* C13: in the outgoing payload of every operation an optional field appears only
\* when the caller supplied a truthy value, and no key carries a null, request_payout
\* with extra keyword arguments included.
C13_NoNullInPayload == \A t \in Callers : HasSent(t) => PayloadHasNoNull(t)

\* The part of C13 that the code keeps: every operation other than request_payout
C13_NoNullExceptPayoutKwargs ==
    \A t \in Callers : (HasSent(t) /\ op[t] # "request_payout") => PayloadHasNoNull(t)

\* Caller t's get_history was answered 200 with a JSON array
HistoryAnswered(t) ==
    /\ op[t] = "get_history"
    /\ got[t].kind = "response" /\ got[t].status = 200
    /\ got[t].body.kind = "list"

\* A record that has every field of Transaction
WellFormed(tx) == DOMAIN tx = TxFields

\* C14: get_history, answered with an array of N well-formed records, returns
\* exactly N Transactions in the same order, the i-th having id, provider,
\* external_id, amount, status, created_at and mode equal to the i-th record's.
C14_HistoryMapsRecordsInOrder ==
    \A t \in Callers :
        (HistoryAnswered(t) /\ \A i \in 1..Len(got[t].body.l) : WellFormed(got[t].body.l[i])) =>
            /\ result[t].kind = "return"
            /\ result[t].shape = "Transactions"
            /\ Len(result[t].txs) = Len(got[t].body.l)
            /\ \A i \in 1..Len(got[t].body.l) : \A f \in TxFields :
                  result[t].txs[i][f] = got[t].body.l[i][f]

C14_Witness ==
    /\ HistoryAnswered("t1")
    /\ got["t1"].body.l = <<TxRecord2, TxRecord>>
    /\ Len(result["t1"].txs) = 2
    /\ result["t1"].txs[1].external_id = "CK2"
    /\ result["t1"].txs[2].external_id = "FT1"

\* C15: when a record of the history response lacks a required Transaction field,
\* get_history raises (a response-validation error) and returns no Transaction in
\* which that field is null.
C15_MissingFieldIsAnError ==
    \A t \in Callers :
        (HistoryAnswered(t) /\ \E i \in 1..Len(got[t].body.l) : ~WellFormed(got[t].body.l[i])) =>
            /\ result[t].kind = "raise"
            /\ result[t].exc \in SdkErrors(brand)

\* C16: get_history(limit) returns at most limit transactions.
C16_HistoryHonoursLimit ==
    \A t \in Callers :
        (op[t] = "get_history" /\ result[t].kind = "return") =>
            Len(result[t].txs) <= args[t].limit

\* The value from_response gives field k when the body has no such field
Absent(k) ==
    CASE k = "valid" -> "False"
      [] k = "status" -> "unknown"
      [] OTHER -> None

\* C17: the VerificationResult built from a decoded body has valid = the body's
\* valid or false when absent, status = the body's status or 'unknown' when
\* absent, and provider, transaction_id, amount, reason, mode and payer equal to
\* the body's field when present and unset when absent.
C17_VerificationResultFromBody ==
    \A t \in Callers :
        (/\ op[t] \in FormOps
         /\ got[t].kind = "response" /\ got[t].status = 200
         /\ got[t].body.kind = "dict") =>
            /\ result[t].kind = "return"
            /\ result[t].shape = "VerificationResult"
            /\ \A k \in VRFields :
                  result[t].vr[k] = IF k \in DOMAIN got[t].body.d
                                    THEN got[t].body.d[k]
                                    ELSE Absent(k)

C17_Witness ==
    /\ op["t1"] = "verify"
    /\ got["t1"].kind = "response"
    /\ got["t1"].body = DictBody([transaction_id |-> "FT1", amount |-> "100"])
    /\ result["t1"].vr.valid = "False"
    /\ result["t1"].vr.status = "unknown"
    /\ result["t1"].vr.provider = None
    /\ result["t1"].vr.amount = "100"

\* C18: verify() called without a merchant_name, or with an empty one, sends the
\* brand's non-empty default merchant name; called with a non-empty merchant_name
\* it sends that value verbatim.
C18_MerchantNameDefault ==
    \A t \in Callers :
        (HasSent(t) /\ op[t] = "verify") =>
            /\ "merchant_name" \in DOMAIN sent[t].body.fields
            /\ sent[t].body.fields.merchant_name # ""
            /\ sent[t].body.fields.merchant_name =
                  IF args[t].merchant_name \in {None, ""}
                  THEN IF brand = "kyne" THEN "Kyne Verification"
                                         ELSE "ShegerPay Verification"
                  ELSE args[t].merchant_name

C18_Witness ==
    /\ HasSent("t1") /\ op["t1"] = "verify"
    /\ brand = "kyne"
    /\ args["t1"].merchant_name = ""
    /\ sent["t1"].body.fields.merchant_name = "Kyne Verification"

\* C19: verify() sends no sub_provider key when the caller supplied none, and
\* sends the caller's value unchanged in sub_provider when one is supplied.
C19_SubProviderOnlyWhenSupplied ==
    \A t \in Callers :
        (HasSent(t) /\ op[t] = "verify") =>
            IF Truthy(args[t].sub_provider)
            THEN /\ "sub_provider" \in DOMAIN sent[t].body.fields
                 /\ sent[t].body.fields.sub_provider = args[t].sub_provider
            ELSE /\ "sub_provider" \notin DOMAIN data[t].d
                 /\ "sub_provider" \notin DOMAIN sent[t].body.fields

C19_Witness ==
    /\ HasSent("t1") /\ op["t1"] = "verify"
    /\ args["t1"].sub_provider = "Payoneer"
    /\ sent["t1"].body.fields.sub_provider = "Payoneer"
    /\ sent["t1"].body.fields.provider = "cbe"

\* C20: quick_verify sends a payload of exactly transaction_id and amount, both
\* as the caller gave them; it never sends a provider and detects none locally.
C20_QuickVerifyPayload ==
    \A t \in Callers :
        (HasSent(t) /\ op[t] = "quick_verify") =>
            /\ DOMAIN data[t].d = {"transaction_id", "amount"}
            /\ DOMAIN sent[t].body.fields = {"transaction_id", "amount"}
            /\ sent[t].body.fields.transaction_id = args[t].transaction_id
            /\ sent[t].body.fields.amount = args[t].amount
            /\ sent[t].url = base_url \o "/api/v1/quick-verify"

C20_Witness ==
    /\ HasSent("t1") /\ op["t1"] = "quick_verify"
    /\ args["t1"].transaction_id = "FT"
    /\ sent["t1"].body.fields = [transaction_id |-> "FT", amount |-> "100"]

\* C21: for every operation other than verify, quick_verify and get_history the
\* value returned on success is the decoded response body unchanged, whatever the
\* body's shape (list_payment_links given an object included).
C21_OtherOperationsReturnTheBody ==
    \A t \in Callers :
        (op[t] \notin CommonOps /\ result[t].kind = "return") =>
            /\ result[t].shape = "body"
            /\ result[t].body = got[t].body

\* The part of C21 that the code keeps: every such operation but list_payment_links
C21_ReturnTheBodyExceptPaymentLinks ==
    \A t \in Callers :
        (op[t] \notin CommonOps \cup {"list_payment_links"} /\ result[t].kind = "return") =>
            /\ result[t].shape = "body"
            /\ result[t].body = got[t].body

\* C22: once the client is constructed no operation, succeeding or failing,
\* changes api_key, base_url, timeout, mode or the session's Authorization header,
\* and every request the client issues carries 'Bearer ' followed by the api_key
\* given at construction.
C22_ConfigurationIsFrozen ==
    constructed = "ok" =>
        /\ api_key = init_args.api_key
        /\ base_url = IF init_args.base_url = None
                      THEN DEFAULT_BASE_URL(brand)
                      ELSE "http://localhost:8000"
        /\ timeout = init_args.timeout
        /\ mode = IF StartsWith(init_args.api_key, "sk_test_") THEN "test" ELSE "live"
        /\ headers.Authorization = "Bearer " \o init_args.api_key
        /\ \A t \in Callers :
              HasSent(t) => sent[t].authorization = "Bearer " \o init_args.api_key

C22_Witness ==
    /\ constructed = "ok"
    /\ init_args.api_key = "sk_live_abc"
    /\ op["t1"] = "create_crypto_payment"
    /\ pc["t1"] = "idle"
    /\ got["t1"].kind = "response" /\ got["t1"].status = 200
    /\ result["t1"].kind = "return"
    /\ sent["t1"].authorization = "Bearer sk_live_abc"
    /\ headers.Authorization = "Bearer sk_live_abc"
    /\ mode = "live"

\* C23: every POST of the JSON family is dispatched through the JSON-body branch
\* of _request, the operations with an empty payload (paypal_create_setup_token,
\* setup_2fa) included: the branch does not depend on the payload being empty.
C23_JsonFamilyUsesJsonBranch ==
    \A t \in Callers :
        (HasSent(t) /\ op[t] \in JsonOps) =>
            /\ use_json[t]
            /\ sent[t].body.enc = "json"

\* The part of C23 that the code keeps: the JSON operations with a payload
C23_JsonBranchWhenPayloadNotEmpty ==
    \A t \in Callers :
        (HasSent(t) /\ op[t] \in JsonOps /\ DOMAIN data[t].d # {}) =>
            /\ use_json[t]
            /\ sent[t].body.enc = "json"

====
